---- MODULE Spec2Model ----
(***************************************************************************)
(* Model of django_sorcery/db/relations.py: the relationship builders      *)
(* OneToMany / ManyToOne / ManyToMany (evaluated as declared attributes on *)
(* a model class) and the declare-first handler that later synthesizes the *)
(* foreign-key columns, constraints and association tables.                *)
(*                                                                         *)
(* Python strings that the code slices, lowercases or joins are sequences  *)
(* of one-character strings, so that lower(), startswith(), key[3:] and    *)
(* "_".join(...) are computed.  Python dicts are functions.                *)
(***************************************************************************)
EXTENDS Integers, Sequences, FiniteSets, TLC

VARIABLES
    tables,      \* cls.metadata.tables: table key -> table
    classes,     \* the model classes: class name -> class state
    relations,   \* the relationship objects created so far: <<class, attr>> -> relationship
    last         \* the last call made and how it ended

vars == <<tables, classes, relations, last>>

-----------------------------------------------------------------------------
(* Bounds of the model *)

\* at most this many relationship attributes are declared in a behaviour
MaxRels == 2

-----------------------------------------------------------------------------
(* Strings *)

None == <<"None">>

ModelOne == <<"M","o","d","e","l","O","n","e">>
ModelTwo == <<"M","o","d","e","l","T","w","o">>
T1 == <<"T","1">>
T2 == <<"T","2">>
s_s == <<"s">>
s_pk == <<"p","k">>
s_id == <<"i","d">>
s_code == <<"c","o","d","e">>
s_m2 == <<"m","2">>
s_M1s == <<"M","1","s">>
s_Ref == <<"R","e","f">>
s_M1 == <<"M","1">>
s_fkp == <<"f","k">>
s_m1m2s == <<"m","1","m","2","s">>
s_assoc == <<"a","s","s","o","c">>
s_us == <<"_">>
s_dot == <<".">>
s_relationships == <<"_","r","e","l","a","t","i","o","n","s","h","i","p","s">>

k_info == <<"i","n","f","o">>
k_uselist == <<"u","s","e","l","i","s","t">>
k_backref == <<"b","a","c","k","r","e","f">>
k_back_populates == <<"b","a","c","k","_","p","o","p","u","l","a","t","e","s">>
k_secondary == <<"s","e","c","o","n","d","a","r","y">>
k_fk_key == <<"f","k","_","k","e","y">>
k_fk_prefix == <<"f","k","_","p","r","e","f","i","x">>
k_table_name == <<"t","a","b","l","e","_","n","a","m","e">>
p_fk == <<"f","k","_">>
p_table == <<"t","a","b","l","e","_">>
o_key == <<"k","e","y">>
o_prefix == <<"p","r","e","f","i","x">>
o_nullable == <<"n","u","l","l","a","b","l","e">>
o_name == <<"n","a","m","e">>

\* str.lower() on the characters the model's names use
LowerChar(ch) ==
    CASE ch = "M" -> "m" [] ch = "O" -> "o" [] ch = "T" -> "t" [] ch = "R" -> "r"
      [] OTHER -> ch

lower(s) == [i \in DOMAIN s |-> LowerChar(s[i])]

\* Python truthiness of a string or None
Truthy(x) == x # None /\ x # <<>>

startswith(s, prefix) ==
    Len(s) >= Len(prefix) /\ SubSeq(s, 1, Len(prefix)) = prefix

\* s[n:]
StrFrom(s, n) == SubSeq(s, n + 1, Len(s))

\* "_".join(filter(None, parts))
RECURSIVE join_(_)
join_(parts) ==
    IF parts = <<>> THEN <<>>
    ELSE LET rest == join_(Tail(parts))
         IN  IF ~Truthy(Head(parts)) THEN rest
             ELSE IF rest = <<>> THEN Head(parts)
             ELSE Head(parts) \o s_us \o rest

-----------------------------------------------------------------------------
(* Dicts *)

EmptyDict == [k \in {} |-> None]

Get(d, k, default) == IF k \in DOMAIN d THEN d[k] ELSE default

\* d.update(e)
Update(d, e) == [k \in DOMAIN d \cup DOMAIN e |-> IF k \in DOMAIN e THEN e[k] ELSE d[k]]

\* d[k] = v
Put(d, k, v) == [x \in DOMAIN d \cup {k} |-> IF x = k THEN v ELSE d[x]]

\* d without the keys in ks
Without(d, ks) == [k \in DOMAIN d \ ks |-> d[k]]

-----------------------------------------------------------------------------
(* The host ORM's objects, as far as relations.py reads and writes them *)

Classes == {ModelOne, ModelTwo}

\* the names under which a class may declare a relationship
AttrNames(cls) == IF cls = ModelOne THEN {s_m2, s_M1s} ELSE {s_M1s}

\* the schemas (__table_args__ = {"schema": ...}) the two classes' tables are in
Schemas ==
    { [c \in Classes |-> None],
      [c \in Classes |-> s_s],
      [c \in Classes |-> IF c = ModelOne THEN s_s ELSE None] }

ONETOMANY == "ONETOMANY"
MANYTOONE == "MANYTOONE"
MANYTOMANY == "MANYTOMANY"

\* sa.Column(name, type, nullable=..., primary_key=...)
Column(name, type, nullable, primary_key) ==
    [name |-> name, type |-> type, nullable |-> nullable, primary_key |-> primary_key]

\* the key under which the host ORM's MetaData.tables holds a table:
\* the name, qualified by the schema when the table has one
TableKey(name, schema) == IF schema = None THEN name ELSE schema \o s_dot \o name

HasColumn(table, col_name) == \E c \in table.columns : c.name = col_name

ColumnOf(table, col_name) == CHOOSE c \in table.columns : c.name = col_name

\* the primary keys a model class may be declared with: (column name, attribute)
PkShapes ==
    { <<[name |-> s_pk, key |-> s_pk]>>,
      <<[name |-> s_id, key |-> s_pk], [name |-> s_code, key |-> s_code]>> }

TableName(c) == IF c = ModelOne THEN T1 ELSE T2

ClassTable(c, schema, pk) ==
    [name |-> TableName(c), schema |-> schema,
     columns |-> {Column(pk[i].name, "Integer", FALSE, TRUE) : i \in DOMAIN pk},
     primary_key |-> [i \in DOMAIN pk |-> pk[i].name],
     constraints |-> {}]

\* an association table the schema author wrote by hand (a `secondary` argument)
UserAssoc ==
    [name |-> s_assoc, schema |-> None,
     columns |-> {Column(<<"a">>, "Integer", FALSE, TRUE), Column(<<"b">>, "Integer", FALSE, TRUE)},
     primary_key |-> << <<"a">>, <<"b">> >>,
     constraints |-> {}]

ClassState(c, schema, pk) ==
    [table |-> TableKey(TableName(c), schema),
     attrs |-> {pk[i].key : i \in DOMAIN pk},
     props |-> {<<pk[i].key, pk[i].name>> : i \in DOMAIN pk},
     rels  |-> {}]

NoCall == [op |-> "none", cls |-> None, key |-> None, table_name |-> None,
           kw_in |-> EmptyDict, kw_out |-> EmptyDict, exc |-> "none"]

Init ==
    \E schema \in Schemas, pk1 \in PkShapes :
        LET pk == [c \in Classes |-> IF c = ModelOne THEN pk1 ELSE <<[name |-> s_pk, key |-> s_pk]>>]
            keys == {TableKey(TableName(c), schema[c]) : c \in Classes}
            clsOf(k) == CHOOSE c \in Classes : TableKey(TableName(c), schema[c]) = k
        IN  /\ tables = [k \in keys \cup {s_assoc} |->
                            IF k = s_assoc THEN UserAssoc
                            ELSE ClassTable(clsOf(k), schema[clsOf(k)], pk[clsOf(k)])]
            /\ classes = [c \in Classes |-> ClassState(c, schema[c], pk[c])]
            /\ relations = EmptyDict
            /\ last = NoCall

-----------------------------------------------------------------------------
(* The relationship builders *)

\* utils.setdefaultattr(cls, name, default) for name = "_relationships":
\* the attribute is created (as the empty set) if the class lacks it
setdefaultattr(cstate, name) == [cstate EXCEPT !.attrs = @ \cup {name}]

\* the options popped from kwargs, and kwargs after the pops
_get_kwargs_for_relation(kwargs, prefix) ==
    LET ks == {k \in DOMAIN kwargs : startswith(k, prefix)}
    IN  [opts |-> [k \in ks |-> kwargs[k]], kwargs |-> Without(kwargs, ks)]

\* kwargs.setdefault("info", {}).update(self._get_kwargs_for_relation(kwargs, prefix))
InfoUpdate(kwargs, prefix) ==
    LET got == _get_kwargs_for_relation(Put(kwargs, k_info, Get(kwargs, k_info, EmptyDict)), prefix)
    IN  Put(got.kwargs, k_info, Update(got.kwargs[k_info], got.opts))

\* the backref block: a backref name becomes (name, {"uselist": ...})
BackrefBlock(kwargs, uselist) ==
    LET backref == Get(kwargs, k_backref, None)
    IN  IF Truthy(backref)
        THEN Put(kwargs, k_backref, <<backref, (k_uselist :> uselist)>>)
        ELSE kwargs

\* self.relationship(remote_cls, **kwargs), with the direction the builder sets
\* and the key the class gives the attribute
relationship(remote_cls, kwargs, direction, key) ==
    [argument |-> remote_cls, key |-> key, direction |-> direction,
     info |-> Get(kwargs, k_info, EmptyDict),
     uselist |-> Get(kwargs, k_uselist, None),
     backref |-> Get(kwargs, k_backref, None),
     back_populates |-> Get(kwargs, k_back_populates, None),
     secondary |-> Get(kwargs, k_secondary, None),
     foreign_keys |-> <<>>]      \* _user_defined_foreign_keys

\* kwargs as o2m leaves them
o2m(kwargs) ==
    BackrefBlock(Put(InfoUpdate(kwargs, p_fk), k_uselist, TRUE), FALSE)

\* kwargs as m2o leaves them
m2o(kwargs) ==
    BackrefBlock(Put(InfoUpdate(kwargs, p_fk), k_uselist, FALSE), TRUE)

\* the check that opens m2m
m2m_ArgumentError(kwargs, table_name) ==
    k_secondary \notin DOMAIN kwargs /\ table_name = None

\* the bookkeeping of m2m between the check and self.relationship(...)
m2m_kwargs(kwargs, table_name) ==
    LET kw1  == InfoUpdate(InfoUpdate(kwargs, p_fk), p_table)
        kw2  == IF Truthy(table_name)
                THEN Put(kw1, k_info, Put(kw1[k_info], k_table_name, table_name))
                ELSE kw1
    IN  BackrefBlock(Put(kw2, k_uselist, TRUE), TRUE)

\* a variant of m2m that validates after the bookkeeping instead of before it
m2m_checks_late(kwargs, table_name) ==
    IF m2m_ArgumentError(kwargs, table_name)
    THEN [exc |-> "ArgumentError", kwargs |-> m2m_kwargs(kwargs, table_name),
          setdefault |-> TRUE, add |-> FALSE]
    ELSE [exc |-> "none", kwargs |-> m2m_kwargs(kwargs, table_name),
          setdefault |-> TRUE, add |-> TRUE]

\* m2m: how it ends, kwargs as it leaves them, whether it reached
\* setdefaultattr(cls, "_relationships", set()) and whether it reached rels.add(rel)
m2m(kwargs, table_name) ==
    IF m2m_ArgumentError(kwargs, table_name)
    THEN [exc |-> "ArgumentError", kwargs |-> kwargs, setdefault |-> FALSE, add |-> FALSE]
    ELSE [exc |-> "none", kwargs |-> m2m_kwargs(kwargs, table_name),
          setdefault |-> TRUE, add |-> TRUE]

\* rels.add(rel); return rel: the class gets the attribute and the pending entry
Declared(cls, key, rel) ==
    /\ classes' = [classes EXCEPT ![cls] =
                      [setdefaultattr(@, s_relationships) EXCEPT
                          !.attrs = @ \cup {key}, !.rels = @ \cup {<<cls, key>>}]]
    /\ relations' = Put(relations, <<cls, key>>, rel)
    /\ UNCHANGED tables

\* A declaration the model explores: the attribute name is free on the class,
\* the two classes differ (self-referential relations are outside the explored
\* inputs) and at most MaxRels relations are declared.
CanDeclare(cls, key, remote_cls) ==
    /\ Cardinality(DOMAIN relations) < MaxRels
    /\ key \notin classes[cls].attrs
    /\ remote_cls # cls

Call(op, cls, key, table_name, kw_in, kw_out, exc) ==
    [op |-> op, cls |-> cls, key |-> key, table_name |-> table_name,
     kw_in |-> kw_in, kw_out |-> kw_out, exc |-> exc]

\* the keyword arguments the model passes to OneToMany and ManyToOne
FkInputs ==
    {EmptyDict, (k_fk_key :> s_Ref), (k_fk_prefix :> s_fkp), (k_backref :> s_M1)}

\* the (table_name, kwargs) the model passes to ManyToMany for attribute `key`
M2MInputs(key) ==
    { <<None, EmptyDict>>,
      <<None, (k_secondary :> s_assoc)>>,
      <<s_m1m2s, (k_back_populates :> (IF key = s_m2 THEN s_M1s ELSE s_m2))>> }

OneToMany(cls, key, remote_cls, kwargs) ==
    /\ CanDeclare(cls, key, remote_cls)
    /\ Declared(cls, key, relationship(remote_cls, o2m(kwargs), ONETOMANY, key))
    /\ last' = Call("OneToMany", cls, key, None, kwargs, o2m(kwargs), "none")

ManyToOne(cls, key, remote_cls, kwargs) ==
    /\ CanDeclare(cls, key, remote_cls)
    /\ Declared(cls, key, relationship(remote_cls, m2o(kwargs), MANYTOONE, key))
    /\ last' = Call("ManyToOne", cls, key, None, kwargs, m2o(kwargs), "none")

ManyToMany(cls, key, remote_cls, table_name, kwargs) ==
    LET r == m2m(kwargs, table_name)
    IN  /\ CanDeclare(cls, key, remote_cls)
        /\ last' = Call("ManyToMany", cls, key, table_name, kwargs, r.kwargs, r.exc)
        /\ IF r.add
           THEN Declared(cls, key, relationship(remote_cls, r.kwargs, MANYTOMANY, key))
           ELSE /\ classes' = IF r.setdefault
                              THEN [classes EXCEPT ![cls] = setdefaultattr(@, s_relationships)]
                              ELSE classes
                /\ UNCHANGED <<tables, relations>>

-----------------------------------------------------------------------------
(* Resolution: the state the handler works on is the record                *)
(* w = [tables, classes, relations, exc]; exc names the exception that     *)
(* ended the work, "none" while there is none.                            *)

\* {key[3:]: val for key, val in relation.info.items() if key.startswith("fk_")}
fk_kwargs_of(info) ==
    LET ks == {k \in DOMAIN info : startswith(k, p_fk)}
    IN  [o \in {StrFrom(k, 3) : k \in ks} |-> info[p_fk \o o]]

\* the name the foreign key is built from
fk_key_of(relation, parent_cls) ==
    LET fk_key == Get(fk_kwargs_of(relation.info), o_key, None)
    IN  IF Truthy(fk_key) THEN fk_key
        ELSE IF relation.direction = MANYTOONE THEN lower(relation.key)
        ELSE IF Truthy(relation.backref) THEN lower(relation.backref[1])
        ELSE lower(parent_cls)

\* parent_cls.__mapper__.get_property_by_column(pk_column).key
PropertyKey(cstate, col_name) == (CHOOSE p \in cstate.props : p[2] = col_name)[1]

\* the loop over parent_cls.__table__.primary_key, from its i-th column on;
\* acc = [w, cols, created], cols the (pk column, fk column) pairs so far
RECURSIVE fk_columns(_, _, _, _, _, _, _)
fk_columns(acc, cls, parent_cls, fk_key, fk_prefix, fk_nullable, i) ==
    LET w        == acc.w
        ptable   == w.tables[w.classes[parent_cls].table]
        ctable   == w.tables[w.classes[cls].table]
    IN  IF i > Len(ptable.primary_key) \/ w.exc # "none" THEN acc
        ELSE
        LET pk_name  == ptable.primary_key[i]
            pk_attr  == PropertyKey(w.classes[parent_cls], pk_name)
            col_name == join_(<<fk_key, pk_name>>)
            attr     == fk_prefix \o join_(<<fk_key, pk_attr>>)
            fk_column == Column(col_name, ColumnOf(ptable, pk_name).type, fk_nullable, FALSE)
            next ==
                IF ~HasColumn(ctable, col_name) /\ attr \notin w.classes[cls].attrs
                THEN \* setattr(cls, attr, fk_column): the class gets the attribute
                     \* and its table the column
                     [w |-> [w EXCEPT
                               !.tables[w.classes[cls].table].columns = @ \cup {fk_column},
                               !.classes[cls].attrs = @ \cup {attr},
                               !.classes[cls].props = @ \cup {<<attr, col_name>>}],
                      cols |-> Append(acc.cols, <<pk_name, col_name>>),
                      created |-> TRUE]
                ELSE IF HasColumn(ctable, col_name)
                THEN [acc EXCEPT !.cols = Append(@, <<pk_name, col_name>>)]
                ELSE \* cls.__table__.columns[col_name] of a column that is not there
                     [acc EXCEPT !.w.exc = "KeyError"]
        IN  fk_columns(next, cls, parent_cls, fk_key, fk_prefix, fk_nullable, i + 1)

_add_foreign_keys(w, cls, parent_cls, rid) ==
    LET relation    == w.relations[rid]
        fk_kwargs   == fk_kwargs_of(relation.info)
        fk_prefix   == Get(fk_kwargs, o_prefix, s_us)
        fk_nullable == Get(fk_kwargs, o_nullable, TRUE)
        fk_key      == fk_key_of(relation, parent_cls)
        rest        == Without(fk_kwargs, {o_prefix, o_nullable, o_key})
        done        == fk_columns([w |-> w, cols |-> <<>>, created |-> FALSE],
                                  cls, parent_cls, fk_key, fk_prefix, fk_nullable, 1)
        fks         == [j \in DOMAIN done.cols |-> done.cols[j][2]]
        pks         == [j \in DOMAIN done.cols |->
                           <<w.classes[parent_cls].table, done.cols[j][1]>>]
        constraint  == [columns |-> fks, refcolumns |-> pks, kwargs |-> rest]
        w1          == [done.w EXCEPT !.relations[rid].foreign_keys = fks]
    IN  IF done.w.exc # "none" THEN done.w
        ELSE IF done.created
        THEN [w1 EXCEPT !.tables[w.classes[cls].table].constraints = @ \cup {constraint}]
        ELSE w1

\* the items of seq s whose table is t, in order
RECURSIVE OfTable(_, _)
OfTable(s, t) ==
    IF s = <<>> THEN <<>>
    ELSE IF Head(s).table = t THEN <<Head(s)>> \o OfTable(Tail(s), t)
    ELSE OfTable(Tail(s), t)

\* itertools.chain(*seqs)
RECURSIVE chain(_)
chain(seqs) == IF seqs = <<>> THEN <<>> ELSE Head(seqs) \o chain(Tail(seqs))

\* the tables of the items of s, each once, in order of first appearance
RECURSIVE TablesOf(_)
TablesOf(s) ==
    IF s = <<>> THEN <<>>
    ELSE LET init == TablesOf(SubSeq(s, 1, Len(s) - 1))
             t    == s[Len(s)].table
         IN  IF \E j \in DOMAIN init : init[j] = t THEN init ELSE Append(init, t)

\* sa.Table(name, metadata, *table_args, schema=...): the host ORM registers the
\* table in metadata.tables under its key (sqlalchemy.sql.schema._get_table_key),
\* and refuses to define, with columns, a key that is taken (Table.__new__
\* raises InvalidRequestError: "Table ... is already defined for this MetaData
\* instance")
Table(w, rid, name, schema, columns, primary_key, constraints, table_kwargs) ==
    LET key == TableKey(name, schema)
    IN  IF key \in DOMAIN w.tables
        THEN [w EXCEPT !.exc = "InvalidRequestError"]
        ELSE [w EXCEPT
                !.tables = Put(@, key, [name |-> name, schema |-> schema, columns |-> columns,
                                        primary_key |-> primary_key,
                                        constraints |-> constraints,
                                        kwargs |-> table_kwargs]),
                !.relations[rid].secondary = key]

\* {key[6:]: val for key, val in relation.info.items() if key.startswith("table_")}
\* after table_kwargs.pop("name", None)
table_kwargs_of(info) ==
    LET ks == {k \in DOMAIN info : startswith(k, p_table)}
        all == [o \in {StrFrom(k, 6) : k \in ks} |-> info[p_table \o o]]
    IN  Without(all, {o_name})

_add_association_table(w, cls, child_cls, rid) ==
    LET relation   == w.relations[rid]
        table_name == Get(relation.info, k_table_name, None)
        found      == IF table_name \in DOMAIN w.tables THEN table_name ELSE None
        w1         == [w EXCEPT !.relations[rid].secondary = found]
        fk_kwargs  == fk_kwargs_of(relation.info)
        pkOf(c)    == LET t == w.classes[c].table
                      IN  [j \in DOMAIN w.tables[t].primary_key |->
                              [table |-> t, name |-> w.tables[t].primary_key[j]]]
        pk_columns == chain(<<pkOf(cls), pkOf(child_cls)>>)
        col(pk)    == Column(join_(<<lower(w.tables[pk.table].name), pk.name>>),
                             ColumnOf(w.tables[pk.table], pk.name).type, FALSE, TRUE)
        \* column_map, its keys in insertion order
        order      == TablesOf(pk_columns)
        column_map == [t \in {order[j] : j \in DOMAIN order} |->
                          [j \in DOMAIN OfTable(pk_columns, t) |->
                              col(OfTable(pk_columns, t)[j])]]
        table_cols == chain([j \in DOMAIN order |-> column_map[order[j]]])
        constraints == {[columns |-> [j \in DOMAIN column_map[t] |-> column_map[t][j].name],
                         refcolumns |-> [j \in DOMAIN w.tables[t].primary_key |->
                                            <<t, w.tables[t].primary_key[j]>>],
                         kwargs |-> fk_kwargs] : t \in DOMAIN column_map}
    IN  IF relation.secondary # None THEN w
        ELSE IF found # None THEN w1
        ELSE Table(w1, rid, table_name, w.tables[w.classes[cls].table].schema,
                   {table_cols[j] : j \in DOMAIN table_cols},
                   [j \in DOMAIN table_cols |-> table_cols[j].name],
                   constraints, table_kwargs_of(relation.info))

\* a variant of the loop body that takes the sides of OneToMany and ManyToOne
\* the other way round
dispatch_swapped(w, cls, rid) ==
    LET relation == w.relations[rid]
        remote   == relation.argument
    IN  CASE relation.direction = ONETOMANY  -> _add_foreign_keys(w, cls, remote, rid)
          [] relation.direction = MANYTOONE  -> _add_foreign_keys(w, remote, cls, rid)
          [] relation.direction = MANYTOMANY -> _add_association_table(w, cls, remote, rid)
          [] OTHER -> w

\* one pass of the handler's loop body for relation rid of class cls
dispatch(w, cls, rid) ==
    LET relation == w.relations[rid]
        remote   == relation.argument       \* relation.mapper.class_
    IN  CASE relation.direction = ONETOMANY  -> _add_foreign_keys(w, remote, cls, rid)
          [] relation.direction = MANYTOONE  -> _add_foreign_keys(w, cls, remote, rid)
          [] relation.direction = MANYTOMANY -> _add_association_table(w, cls, remote, rid)
          [] OTHER -> w

\* the handler's loop over the relations in `order`; an exception ends it
RECURSIVE resolve(_, _, _)
resolve(w, cls, order) ==
    IF order = <<>> \/ w.exc # "none" THEN w
    ELSE resolve(dispatch(w, cls, Head(order)), cls, Tail(order))

\* the orders in which a Python set may be iterated
Orders(S) ==
    {o \in [1..Cardinality(S) -> S] : \A i, j \in 1..Cardinality(S) : o[i] = o[j] => i = j}

declare_first_relationships_handler(cls) ==
    \E order \in Orders(classes[cls].rels) :
        LET w == resolve([tables |-> tables, classes |-> classes, relations |-> relations,
                          exc |-> "none"], cls, order)
        IN  /\ tables' = w.tables
            /\ relations' = w.relations
            /\ classes' = IF w.exc = "none"
                          THEN [w.classes EXCEPT ![cls].rels = {}]   \* rels.clear()
                          ELSE w.classes
            /\ last' = Call("handler", cls, None, None, EmptyDict, EmptyDict, w.exc)

-----------------------------------------------------------------------------

Next ==
    \/ \E cls \in Classes, remote_cls \in Classes, kwargs \in FkInputs :
           \E key \in AttrNames(cls) : OneToMany(cls, key, remote_cls, kwargs)
    \/ \E cls \in Classes, remote_cls \in Classes, kwargs \in FkInputs :
           \E key \in AttrNames(cls) : ManyToOne(cls, key, remote_cls, kwargs)
    \/ \E cls \in Classes, remote_cls \in Classes :
           \E key \in AttrNames(cls) : \E in \in M2MInputs(key) :
               ManyToMany(cls, key, remote_cls, in[1], in[2])
    \/ \E cls \in Classes : declare_first_relationships_handler(cls)

Spec == Init /\ [][Next]_vars

-----------------------------------------------------------------------------
(* Vocabulary of the properties *)

DeclareOps == {"OneToMany", "ManyToOne", "ManyToMany"}

\* the identities a relationship can have: (declaring class, attribute)
RelIds == {<<c, k>> : c \in Classes, k \in AttrNames(ModelOne) \cup AttrNames(ModelTwo)}

\* the last call was a run of the handler for class A
HandlerRan(A) == last.op = "handler" /\ last.cls = A

DirectionOf(op) ==
    CASE op = "OneToMany" -> ONETOMANY [] op = "ManyToOne" -> MANYTOONE
      [] OTHER -> MANYTOMANY

TableOf(cls) == tables[classes[cls].table]

PkOf(cls) == TableOf(cls).primary_key

\* the relationship no longer waits in its class's _relationships
Resolved(rid) == rid \in DOMAIN relations /\ rid \notin classes[rid[1]].rels

\* the class whose table holds the foreign key of a *-to-one / one-to-* relationship
HolderOf(rid) ==
    IF relations[rid].direction = ONETOMANY THEN relations[rid].argument ELSE rid[1]

\* the class the foreign key of the relationship refers to
ReferencedOf(rid) ==
    IF relations[rid].direction = ONETOMANY THEN rid[1] ELSE relations[rid].argument

\* what the relationship's direction asks of a resolution
ResolvedByDirection(rid) ==
    IF relations[rid].direction = MANYTOMANY
    THEN relations[rid].secondary # None
    ELSE /\ Len(relations[rid].foreign_keys) = Len(PkOf(ReferencedOf(rid)))
         /\ \A j \in DOMAIN relations[rid].foreign_keys :
                HasColumn(TableOf(HolderOf(rid)), relations[rid].foreign_keys[j])

SchemaUnchanged ==
    /\ tables' = tables
    /\ \A c \in Classes : classes'[c].props = classes[c].props

-----------------------------------------------------------------------------
(* C1 *)

\* C1: a ManyToMany declared with neither `secondary` nor `table_name` raises
\* ArgumentError and leaves no trace: the class (its _relationships included),
\* the relationships, the keyword arguments (no "info" entry) and the tables
\* are as before.
C1_ArgumentErrorLeavesNoTrace ==
    [][ (/\ last'.op = "ManyToMany"
         /\ k_secondary \notin DOMAIN last'.kw_in
         /\ last'.table_name = None)
        => /\ last'.exc = "ArgumentError"
           /\ k_info \notin DOMAIN last'.kw_out
           /\ last'.kw_out = last'.kw_in
           /\ UNCHANGED <<tables, classes, relations>> ]_vars

\* a ManyToMany has just raised ArgumentError on a class that has other
\* relationships pending
C1_Witness ==
    /\ last.op = "ManyToMany"
    /\ last.exc = "ArgumentError"
    /\ classes[last.cls].rels # {}

-----------------------------------------------------------------------------
(* C2 *)

\* a declaration only records the relationship, with its direction, as pending;
\* it changes no table and no column property
C2_DeclarationOnlyRecords ==
    [][ last'.op \in DeclareOps
        => /\ SchemaUnchanged
           /\ last'.exc = "none"
              => /\ <<last'.cls, last'.key>> \in classes'[last'.cls].rels
                 /\ relations'[<<last'.cls, last'.key>>].direction = DirectionOf(last'.op)
                 /\ relations'[<<last'.cls, last'.key>>].foreign_keys = <<>> ]_vars

\* C2: schema mutation is deferred: a declaration only records the pending
\* relationship and adds no column, constraint or table; and a run of the
\* declare-first handler resolves every pending relationship of the class
\* according to its direction.
C2_DeferredResolution ==
    [][ /\ last'.op \in DeclareOps
           => /\ SchemaUnchanged
              /\ last'.exc = "none"
                 => /\ <<last'.cls, last'.key>> \in classes'[last'.cls].rels
                    /\ relations'[<<last'.cls, last'.key>>].direction = DirectionOf(last'.op)
        /\ \A A \in Classes, rid \in RelIds :
              (HandlerRan(A)' /\ rid \in classes[A].rels) => ResolvedByDirection(rid)' ]_vars

-----------------------------------------------------------------------------
(* C3 *)

\* a run of the handler that returns leaves the class's pending set empty, and
\* a run on a class with nothing pending changes nothing
C3_ReturningRunClears ==
    [][ last'.op = "handler"
        => /\ last'.exc = "none" => classes'[last'.cls].rels = {}
           /\ classes[last'.cls].rels = {}
              => UNCHANGED <<tables, classes, relations>> ]_vars

\* C3: after one run of the handler the class's pending _relationships set is
\* empty, and a run with nothing pending (or with no _relationships attribute)
\* changes no table, class or relationship.
C3_HandlerIdempotent ==
    [][ last'.op = "handler"
        => /\ classes'[last'.cls].rels = {}
           /\ classes[last'.cls].rels = {}
              => UNCHANGED <<tables, classes, relations>> ]_vars

-----------------------------------------------------------------------------
(* C4 *)

\* C4: the direction fixes the side that gets the foreign key.  In a run of the
\* handler for class A, every OneToMany it resolves has its foreign-key columns
\* in the table of the remote class B, constrained to A's primary key, every
\* ManyToOne has them in A's table, constrained to B's primary key; A's table
\* gets no column unless a ManyToOne was pending, B's table gets none unless a
\* OneToMany was pending (so a ManyToMany adds a column to neither).
C4_DirectionFixesForeignKeySide ==
    [][ \A A \in Classes :
          HandlerRan(A)'
          => LET directions == {relations[rid].direction : rid \in classes[A].rels}
             IN  /\ \A rid \in RelIds :
                        ( /\ rid \in classes[A].rels
                          /\ rid \notin classes'[A].rels
                          /\ relations[rid].direction \in {ONETOMANY, MANYTOONE} )
                        => /\ ResolvedByDirection(rid)'
                           /\ \E con \in (TableOf(HolderOf(rid)).constraints)' :
                                 /\ con.columns = relations'[rid].foreign_keys
                                 /\ con.refcolumns =
                                       [j \in DOMAIN PkOf(ReferencedOf(rid)) |->
                                           <<classes[ReferencedOf(rid)].table,
                                             PkOf(ReferencedOf(rid))[j]>>]
                 /\ MANYTOONE \notin directions
                    => (TableOf(A).columns)' = TableOf(A).columns
                 /\ ONETOMANY \notin directions
                    => \A B \in Classes \ {A} :
                          (TableOf(B).columns)' = TableOf(B).columns ]_vars

\* a OneToMany and a ManyToOne have both been resolved
C4_Witness ==
    /\ last.op = "handler"
    /\ \E r1, r2 \in DOMAIN relations :
          /\ Resolved(r1) /\ relations[r1].direction = ONETOMANY
          /\ Resolved(r2) /\ relations[r2].direction = MANYTOONE
          /\ relations[r1].foreign_keys # <<>>
          /\ relations[r2].foreign_keys # <<>>

-----------------------------------------------------------------------------
(* C5 *)

s_m2_pk == <<"m","2","_","p","k">>
s_m1_pk == <<"m","1","_","p","k">>

\* the relationship was declared as in the docstrings: no fk_ option, no backref
Plain(rid) == relations[rid].info = EmptyDict /\ relations[rid].backref = None

\* the fk_key of the naming rule, option by option
RuleFkKey(rid) ==
    LET r == relations[rid]
    IN  IF k_fk_key \in DOMAIN r.info THEN r.info[k_fk_key]
        ELSE IF r.direction = MANYTOONE THEN lower(r.key)
        ELSE IF r.backref # None THEN lower(r.backref[1])
        ELSE lower(ReferencedOf(rid))

\* the general naming rule: for each primary-key column P of the referenced
\* class the foreign-key column is <fk_key>_<P.name>, and a column the run
\* creates is held by the attribute <fk_prefix><fk_key>_<P's property key>
C5_GeneralNaming ==
    [][ \A A \in Classes, rid \in RelIds :
          ( /\ HandlerRan(A)'
            /\ rid \in classes[A].rels
            /\ rid \notin classes'[A].rels
            /\ relations[rid].direction \in {ONETOMANY, MANYTOONE} )
          => LET pk == PkOf(ReferencedOf(rid))
                 prefix == Get(relations[rid].info, k_fk_prefix, s_us)
                 col(j) == RuleFkKey(rid) \o s_us \o pk[j]
                 attr(j) == prefix \o RuleFkKey(rid) \o s_us
                               \o PropertyKey(classes[ReferencedOf(rid)], pk[j])
             IN  /\ relations'[rid].foreign_keys = [j \in DOMAIN pk |-> col(j)]
                 /\ classes[A].rels = {rid}
                    => \A j \in DOMAIN pk :
                          ~HasColumn(TableOf(HolderOf(rid)), col(j))
                          => <<attr(j), col(j)>> \in classes'[HolderOf(rid)].props ]_vars

\* C5: the generated foreign key is named as in the docstring examples: a
\* ManyToOne declared as `m2` on ModelOne toward ModelTwo (primary key `pk`)
\* creates m2_pk on ModelOne, and a OneToMany declared as `m2` on ModelOne
\* toward ModelTwo creates m1_pk on ModelTwo.
C5_DocstringNaming ==
    \A rid \in DOMAIN relations :
        ( /\ Resolved(rid)
          /\ rid = <<ModelOne, s_m2>>
          /\ relations[rid].argument = ModelTwo
          /\ Plain(rid)
          /\ PkOf(ModelOne) = <<s_pk>> /\ PkOf(ModelTwo) = <<s_pk>> )
        => /\ relations[rid].direction = MANYTOONE => HasColumn(TableOf(ModelOne), s_m2_pk)
           /\ relations[rid].direction = ONETOMANY => HasColumn(TableOf(ModelTwo), s_m1_pk)

-----------------------------------------------------------------------------
(* C6 *)

TablesNamed(name) == {k \in DOMAIN tables : tables[k].name = name}

\* a ManyToMany that names its association table and passes no `secondary`
NamesTable(rid, name) ==
    /\ relations[rid].direction = MANYTOMANY
    /\ Get(relations[rid].info, k_table_name, None) = name

\* C6: an association table is created at most once per table name, and two
\* ManyToMany relationships declared toward each other with the same
\* table_name, once both are resolved (in either order), have the very same
\* secondary table, the only table of that name.
C6_OneAssociationTable ==
    /\ Cardinality(TablesNamed(s_m1m2s)) <= 1
    /\ \A r1, r2 \in DOMAIN relations :
          ( /\ Resolved(r1) /\ Resolved(r2)
            /\ NamesTable(r1, s_m1m2s) /\ NamesTable(r2, s_m1m2s) )
          => /\ relations[r1].secondary = relations[r2].secondary
             /\ relations[r1].secondary \in TablesNamed(s_m1m2s)

\* resolving a ManyToMany creates a table only if the relationship has no
\* secondary and the metadata holds no table under the key table_name
C6_CreatesOnlyIfKeyFree ==
    [][ \A A \in Classes :
          (HandlerRan(A)' /\ DOMAIN tables' # DOMAIN tables)
          => \E rid \in classes[A].rels :
              /\ relations[rid].direction = MANYTOMANY
              /\ relations[rid].secondary = None
              /\ Get(relations[rid].info, k_table_name, None) \notin DOMAIN tables ]_vars

====
